---- MODULE Spec2Model ----
(***************************************************************************)
(* State-machine model of the scroll-driven image sequence player          *)
(* (docs/js/sequence-player.js, class SequencePlayer) and of the page      *)
(* components around it.                                                   *)
(*                                                                         *)
(* The browser runs every handler to completion on one thread; the only    *)
(* suspension points are the awaits on an image load.  Each action below   *)
(* is therefore one macrotask: a scroll event, the animation-frame         *)
(* callback that runs onScroll, a resize event, or the onload / onerror    *)
(* callback of one Image together with the continuation that was awaiting  *)
(* its promise.  A drawFrame call whose loadFrame returns null at once     *)
(* resumes in a microtask of the same macrotask, before any other handler  *)
(* can change the cache, so it is part of the calling action.              *)
(*                                                                         *)
(* Numbers: scroll offsets are whole pixels; progress = scrollStart /      *)
(* scrollRange is kept as an exact fraction.  The page is assumed to hold  *)
(* the section, the canvas, the overlay and the year indicator elements.   *)
(* File names are sequences of pieces of text, a frame number being one    *)
(* piece per digit.  The window takes one of two sizes, and a resize event *)
(* is a change from one to the other.                                      *)
(*                                                                         *)
(* Specifications: Spec is the player of any section; SpecPlain is Spec    *)
(* for the sections without year indicator; SpecPreload is a long sequence *)
(* scrolled while no load completes; SpecFrameSrc applies getFrameSrc to   *)
(* freshly constructed players; SpecLoads is SpecPlain in a window of one  *)
(* size, with every image load completing.                                 *)
(*                                                                         *)
(* The page's other components each have a variable and a specification of *)
(* their own, in which the player stands still: SpecApp (class App: init,  *)
(* the loading overlay, the chord year sliders and the lazily created      *)
(* chord visualization), SpecTypewriter (class TypewriterEffect) and       *)
(* SpecFootprints (class FootprintsTrail).                                 *)
(***************************************************************************)
EXTENDS Integers, Sequences, FiniteSets, TLC

\* ---------------------------------------------------------------- bounds
\* Largest totalFrames (endFrame - startFrame + 1) of a descriptor.
MaxFrames == 2
\* Largest scrollRange (sectionHeight - viewportHeight), in pixels.
MaxRange == 2
\* totalFrames of the long sequence on which the prefetch window is checked.
WindowFrames == 34
\* Largest endFrame - startFrame of a descriptor that supplies both.
MaxSpan == 2
\* Longest text a TypewriterEffect animates, in characters.
MaxText == 2
\* Most start() calls on one TypewriterEffect.
MaxStarts == 3
\* Tallest page the footprints trail follows: scrollHeight - innerHeight, in pixels.
MaxDoc == 12

\* ------------------------------------------------------ program constants
bufferSize == 15
MinYear == 2000
DefaultStartYear == 2000
DefaultStartFrame == 1
DefaultEndFrame == 100
DefaultPadding == 3
MaxYear == 2016
\* The empty cache slot (null) and the number NaN, as values outside 0..
NULL == -1
NaN == -1000

VARIABLES
    dataset,         \* section.dataset: the attributes start, end, padding and
                     \* pattern as supplied (NaN: not a number, <<>>: no pattern)
    sequenceName,    \* this.sequenceName
    startFrame,      \* this.startFrame
    endFrame,        \* this.endFrame
    padding,         \* this.padding
    pattern,         \* this.pattern, as a sequence of pieces of text
    frameSrc,        \* the latest call of getFrameSrc and its result: [frameIndex, src]
    totalFrames,     \* this.totalFrames
    framesPerYear,   \* this.framesPerYear
    startYear,       \* this.startYear
    images,          \* this.images: slot -> NULL or the decoded image of that frame
    loadingFrames,   \* this.loadingFrames
    loads,           \* slot -> the Image objects still loading, each with the
                     \* continuation awaiting its promise: "none", "draw", "init"
    currentFrame,    \* this.currentFrame
    currentYear,     \* this.currentYear
    initialized,     \* this.initialized
    bound,           \* the scroll and resize listeners are registered
    ticking,         \* bindScroll's ticking flag: an animation frame is requested
    scrollStart,     \* -rect.top as the last onScroll read it (NaN: none yet)
    scrollRange,     \* sectionHeight - viewportHeight as the last onScroll read it
    canvas,          \* last paint: [req |-> index asked of drawFrame, img |-> image]
    painted,         \* last paint: the rectangle <<x, y, width, height>> given to
                     \* drawImage, <<>> before the first paint
    viewport,        \* <<window.innerWidth, window.innerHeight>>
    geometry,        \* canvas.width, canvas.height (NULL: as the page sized it),
                     \* drawWidth, drawHeight, drawX, drawY
    resized,         \* history: the resize listener has run since the animation
                     \* frame that is now requested was requested
    yearShown,       \* yearValueEl.textContent, NULL until the player writes it
    overlayVisible,  \* the overlay has class 'visible'
    failed,          \* history: slots whose latest completed load ended in onerror
    app,             \* the App controller: its init(), the loading overlay, the chord
                     \* year sliders and the chord visualization
    typewriter,      \* one TypewriterEffect and the timeouts it has set
    footprints       \* the FootprintsTrail: the page's scroll position and the
                     \* classes of its footprints

vars == <<dataset, sequenceName, startFrame, endFrame, padding, pattern, frameSrc,
          totalFrames, framesPerYear, startYear, images, loadingFrames, loads,
          currentFrame, currentYear, initialized, bound, ticking, scrollStart,
          scrollRange, canvas, painted, viewport, geometry, resized, yearShown,
          overlayVisible, failed, app, typewriter, footprints>>

\* The other components of the page, which the sequence player never touches.
pageVars == <<app, typewriter, footprints>>

\* The sequence player, which the other components never touch.
playerVars == <<dataset, sequenceName, startFrame, endFrame, padding, pattern, frameSrc,
                totalFrames, framesPerYear, startYear, images, loadingFrames, loads,
                currentFrame, currentYear, initialized, bound, ticking, scrollStart,
                scrollRange, canvas, painted, viewport, geometry, resized, yearShown,
                overlayVisible, failed>>

descVars == <<dataset, sequenceName, startFrame, endFrame, padding, pattern, totalFrames, framesPerYear, startYear>>

\* ------------------------------------------------------------ value sets
StartYears == {1999, DefaultStartYear}
FramesPerYears == {0, 1}
ScrollRanges == -1 .. MaxRange
\* The layouts <<scrollStart, scrollRange>> a callback may find: every offset
\* from one pixel before the section to one pixel past its scroll range.
Layouts == {l \in (-1 .. (MaxRange + 1)) \X ScrollRanges : l[1] <= l[2] + 1}
\* Keys of this.images that the code can touch: 0..totalFrames-1 and "NaN".
Slots == (0 .. (totalFrames - 1)) \cup {NaN}
Descriptors == {d \in [totalFrames : 1 .. MaxFrames, framesPerYear : FramesPerYears, startYear : StartYears] : d.framesPerYear = 0 => d.startYear = DefaultStartYear}

\* The piece of a name pattern that stands for the frame number, and the
\* pattern used when the section supplies none: 'render{frame}.png'.
Placeholder == "{frame}"
DefaultPattern == <<"render", Placeholder, ".png">>
\* The decimal digits, as characters.
DigitChars == <<"0", "1", "2", "3", "4", "5", "6", "7", "8", "9">>
\* Attribute values a section may carry.  NaN stands for an attribute that is
\* absent or not a number, <<>> for an absent or empty pattern.
\* Window sizes, and the natural size of the frames (all frames of a sequence
\* have the same size); chosen so that every quotient of setupCanvas is whole.
Viewports == {<<4, 4>>, <<8, 2>>}
ImageSize == [width |-> 2, height |-> 1]
DataStarts == {NaN, 0, 1, 8, 98}
DataEnds(start) == {NaN} \cup ((IF start = NaN THEN DefaultStartFrame ELSE start) .. ((IF start = NaN THEN DefaultStartFrame ELSE start) + MaxSpan))
DataPaddings == {NaN, 0, 1, 2, 4}
DataPatterns == {<<>>, <<"img_", Placeholder, ".jpg">>, <<Placeholder, ".png">>}
Datasets == {ds \in [sequence : {"frames"}, start : DataStarts, end : {NaN} \cup (0 .. (98 + MaxSpan)), padding : DataPaddings, pattern : DataPatterns] : ds.end \in DataEnds(ds.start)}

Max(a, b) == IF a >= b THEN a ELSE b
Min(a, b) == IF a <= b THEN a ELSE b
RemoveAt(s, k) == SubSeq(s, 1, k - 1) \o SubSeq(s, k + 1, Len(s))

hasYearIndicator == framesPerYear > 0

\* ------------------------------------------------------------- the cache
\* The part of the player that loadFrame, preloadBuffer and drawFrame change.
Cache == [images |-> images, loadingFrames |-> loadingFrames, loads |-> loads, canvas |-> canvas, painted |-> painted, geometry |-> geometry]

\* loadFrame's range test; NaN passes both comparisons.
OutOfRange(i) == i # NaN /\ (i < 0 \/ i >= totalFrames)

\* loadFrame without its test of loadingFrames.
LoadFrameStarts_NoInFlightCheck(c, i) == ~OutOfRange(i) /\ c.images[i] = NULL

\* loadFrame refusing the frames whose latest load has failed.
LoadFrameStarts_RemembersFailure(c, i) == ~OutOfRange(i) /\ c.images[i] = NULL /\ i \notin c.loadingFrames /\ i \notin failed

\* loadFrame gets past its three early returns and creates an Image.
LoadFrameStarts(c, i) == ~OutOfRange(i) /\ c.images[i] = NULL /\ i \notin c.loadingFrames

\* loadFrame marking the index in flight without setting the Image's src.
StartLoad_NoSrc(c, i, w) == [c EXCEPT !.loadingFrames = @ \cup {i}]

\* The Image is created and its promise handed to the continuation w.
StartLoad(c, i, w) == [c EXCEPT !.loadingFrames = @ \cup {i}, !.loads[i] = Append(@, w)]

\* drawFrame without its full-surface branch.
DrawRect_NoFallback(g) == <<g.drawX, g.drawY, g.drawWidth, g.drawHeight>>

\* The rectangle drawFrame paints an image into.
DrawRect(g) ==
    IF g.drawWidth # 0 /\ g.drawHeight # 0 THEN <<g.drawX, g.drawY, g.drawWidth, g.drawHeight>>
    ELSE <<0, 0, g.width, g.height>>

Paint(c, index, img) == [c EXCEPT !.canvas = [req |-> index, img |-> img], !.painted = DrawRect(c.geometry)]

\* The fields setupCanvas assigns, for a window of size vp.
Letterbox(vp) ==
    LET viewportWidth == vp[1]
        viewportHeight == vp[2]
    IN  IF viewportWidth * ImageSize.height > viewportHeight * ImageSize.width THEN
            LET drawHeight == (viewportWidth * ImageSize.height) \div ImageSize.width
            IN  [width |-> viewportWidth, height |-> viewportHeight,
                 drawWidth |-> viewportWidth, drawHeight |-> drawHeight,
                 drawX |-> 0, drawY |-> (viewportHeight - drawHeight) \div 2]
        ELSE
            LET drawWidth == (viewportHeight * ImageSize.width) \div ImageSize.height
            IN  [width |-> viewportWidth, height |-> viewportHeight,
                 drawWidth |-> drawWidth, drawHeight |-> viewportHeight,
                 drawX |-> (viewportWidth - drawWidth) \div 2, drawY |-> 0]

\* setupCanvas computing the geometry the first time only.
setupCanvas_Once(c, vp) == IF c.images[0] = NULL \/ c.geometry.drawWidth # 0 THEN c ELSE [c EXCEPT !.geometry = Letterbox(vp)]

setupCanvas(c, vp) == IF c.images[0] = NULL THEN c ELSE [c EXCEPT !.geometry = Letterbox(vp)]


\* drawFrame up to its await, and past it when loadFrame returned null at once.
drawFrame(c, index) ==
    IF c.images[index] # NULL THEN Paint(c, index, c.images[index])
    ELSE IF LoadFrameStarts(c, index) THEN StartLoad(c, index, "draw")
    ELSE IF c.images[0] # NULL THEN Paint(c, index, c.images[0])
    ELSE c

\* drawFrame after its await, without the fallback to frame 0.
ResumeDraw_NoFallback(c, index, result) == IF result = NULL THEN c ELSE Paint(c, index, result)

\* drawFrame after its await, resumed with the result of the load it started.
ResumeDraw(c, index, result) ==
    LET img == IF result = NULL /\ c.images[0] # NULL THEN c.images[0] ELSE result
    IN  IF img = NULL THEN c ELSE Paint(c, index, img)

\* preloadBuffer's loop with i < end in place of i <= end.
Window_ShortAtTop(centerFrame) ==
    IF centerFrame = NaN THEN {}
    ELSE Max(0, centerFrame - bufferSize) .. (Min(totalFrames - 1, centerFrame + bufferSize) - 1)

\* The indices preloadBuffer's loop visits; the loop is empty for NaN.
Window(centerFrame) ==
    IF centerFrame = NaN THEN {}
    ELSE Max(0, centerFrame - bufferSize) .. Min(totalFrames - 1, centerFrame + bufferSize)

\* The indices for which preloadBuffer's loop calls loadFrame.
PreloadWanted(c, centerFrame) == {i \in Window(centerFrame) : c.images[i] = NULL /\ i \notin c.loadingFrames}

preloadBuffer(c, centerFrame) ==
    LET started == {i \in PreloadWanted(c, centerFrame) : LoadFrameStarts(c, i)}
    IN  [c EXCEPT !.loadingFrames = @ \cup started,
                  !.loads = [i \in DOMAIN @ |-> IF i \in started THEN Append(@[i], "none") ELSE @[i]]]

SetCache(c) ==
    /\ images' = c.images
    /\ loadingFrames' = c.loadingFrames
    /\ loads' = c.loads
    /\ canvas' = c.canvas
    /\ painted' = c.painted
    /\ geometry' = c.geometry

\* ------------------------------------------------------- frame sources
\* parseInt(x) || dflt: NaN and 0 are both falsy.
ParseIntOr(x, dflt) == IF x = NaN \/ x = 0 THEN dflt ELSE x

\* n.toString() for an integer n >= 0, as a sequence of digit characters.
RECURSIVE toString(_)
toString(n) == IF n < 10 THEN <<DigitChars[n + 1]>> ELSE Append(toString(n \div 10), DigitChars[(n % 10) + 1])

\* padEnd in place of padStart: the fill goes to the right.
PadStart_AtEnd(s, targetLength, fill) ==
    IF Len(s) >= targetLength THEN s
    ELSE s \o [k \in 1 .. (targetLength - Len(s)) |-> fill]

\* s.padStart(targetLength, fill) for a one-character fill.
PadStart(s, targetLength, fill) ==
    IF Len(s) >= targetLength THEN s
    ELSE [k \in 1 .. (targetLength - Len(s)) |-> fill] \o s

\* text.replace(piece, by): only the first occurrence is replaced.
ReplaceFirst(text, piece, by) ==
    LET at == {k \in 1 .. Len(text) : text[k] = piece}
    IN  IF at = {} THEN text
        ELSE LET k == CHOOSE j \in at : \A m \in at : j <= m
             IN  SubSeq(text, 1, k - 1) \o by \o SubSeq(text, k + 1, Len(text))

getFrameSrc(frameIndex) ==
    LET frameNum == PadStart(toString(startFrame + frameIndex), padding, "0")
        filename == ReplaceFirst(pattern, Placeholder, frameNum)
    IN  <<sequenceName, "/">> \o filename

\* ------------------------------------------------------- scroll mapping
\* progress measured from the end of the scroll range instead of its start.
Progress_Inverted(s, r) ==
    IF r <= 0 \/ s < 0 \/ s > r THEN [nan |-> r = 0 /\ s = 0, num |-> 0, den |-> 1]
    ELSE [nan |-> FALSE, num |-> r - s, den |-> r]

\* progress = Math.max(0, Math.min(1, scrollStart / scrollRange)) as a fraction;
\* 0 / 0 is NaN and passes through Math.min and Math.max.
Progress(s, r) ==
    IF r = 0 /\ s = 0 THEN [nan |-> TRUE, num |-> 0, den |-> 1]
    ELSE IF r = 0 THEN [nan |-> FALSE, num |-> IF s > 0 THEN 1 ELSE 0, den |-> 1]
    ELSE LET n == IF r > 0 THEN s ELSE 0 - s
             d == IF r > 0 THEN r ELSE 0 - r
         IN  IF n < 0 THEN [nan |-> FALSE, num |-> 0, den |-> 1]
             ELSE IF n > d THEN [nan |-> FALSE, num |-> 1, den |-> 1]
             ELSE [nan |-> FALSE, num |-> n, den |-> d]

\* onScroll without its early return before the section.
NotReached_Never(s) == FALSE

\* if (scrollStart < 0): the section has not been reached.
NotReached(s) == s < 0

\* if (scrollStart > scrollRange): the section has been scrolled past.
ScrolledPast(s, r) == s > r

\* frameIndex rounded up (Math.ceil) instead of down.
FrameIndexOf_RoundsUp(p, total) == IF p.nan THEN NaN ELSE ((p.num * (total - 1)) + p.den - 1) \div p.den

\* frameIndex = Math.floor(progress * (totalFrames - 1))
FrameIndexOf(p, total) == IF p.nan THEN NaN ELSE (p.num * (total - 1)) \div p.den

\* The overlay shown from a tenth of the way on, and up to the very end.
OverlayShown_LateAndLong(p) == ~p.nan /\ 10 * p.num > p.den

\* progress > 0.05 && progress < 0.95
OverlayShown(p) == ~p.nan /\ 20 * p.num > p.den /\ 20 * p.num < 19 * p.den

\* year = startYear + Math.floor(frameIndex / framesPerYear)
YearOf(frameIndex) == IF frameIndex = NaN THEN NaN ELSE startYear + (frameIndex \div framesPerYear)

\* clampedYear = Math.min(2016, Math.max(2000, year))
ClampYear(year) == IF year = NaN THEN NaN ELSE Min(MaxYear, Max(MinYear, year))

\* ------------------------------------------------------------------ Init
\* The state the constructor leaves: init() has run up to its await of
\* loadFrame(0), so frame 0 is loading and no listener is bound yet.
Constructor(ds) ==
    /\ dataset = ds
    /\ sequenceName = ds.sequence
    /\ startFrame = ParseIntOr(ds.start, DefaultStartFrame)
    /\ endFrame = ParseIntOr(ds.end, DefaultEndFrame)
    /\ totalFrames = endFrame - startFrame + 1
    /\ pattern = IF ds.pattern = <<>> THEN DefaultPattern ELSE ds.pattern
    /\ padding = ParseIntOr(ds.padding, DefaultPadding)
    /\ frameSrc = [frameIndex |-> NULL, src |-> <<>>]

\* The section of a descriptor d: frames 1 .. d.totalFrames, named by default.
DatasetOf(d) == [sequence |-> "frames", start |-> NaN, end |-> d.totalFrames, padding |-> NaN, pattern |-> <<>>]

\* ------------------------------------------------ the page's other components
\* The defaults of ChordVisualization's constructor, also the ends of the
\* year sliders.
ChordYearStart == 2000
ChordYearEnd == 2016

\* The years a year slider is moved to.
SliderYears == {ChordYearStart + 4 * k : k \in 0 .. 4}

\* App once its constructor has returned: init() has shown the loading overlay,
\* created the sequence players and awaits loadData(). removals counts the
\* pending timeouts that remove the overlay; chordYearStart and chordYearEnd
\* are the values of the two slider elements.
AppConstructed ==
    [phase |-> "loading",
     data |-> FALSE,
     overlay |-> [present |-> TRUE, hidden |-> FALSE, content |-> "spinner", removals |-> 0],
     chordYearStart |-> ChordYearStart,
     chordYearEnd |-> ChordYearEnd,
     initialized |-> [chord |-> FALSE],
     chord |-> [exists |-> FALSE, yearStart |-> NULL, yearEnd |-> NULL]]

\* The texts of the element a TypewriterEffect animates, <<>> for an element
\* without text.
TypewriterTexts == UNION {[1 .. n -> {"a", "b"}] : n \in 0 .. MaxText}

\* A TypewriterEffect once constructed on an element with this text. typed is
\* what type() has inserted into the element, timeouts the number of pending
\* timeouts that call type(), completions the number of times the completion
\* branch of type() has run, starts the number of start() calls so far.
TypewriterConstructed(text) ==
    [text |-> text, index |-> 0, completed |-> FALSE, typed |-> <<>>,
     timeouts |-> 0, completions |-> 0, starts |-> 0]

totalFootprints == 30

\* The footprints given class 'active' and class 'recent' for a scroll
\* progress num / den.
updateFootprints(progress) ==
    LET activePairIndex == (progress.num * totalFootprints) \div (2 * progress.den)
        activeIndex == activePairIndex * 2 + 1
    IN  [active |-> {index \in 0 .. (totalFootprints - 1) : index <= activeIndex},
         recent |-> {index \in 0 .. (totalFootprints - 1) : index \div 2 = activeIndex \div 2}]

\* FootprintsTrail.onScroll with the page at scrollY and docHeight left to
\* scroll in all.
FootprintsAt(scrollY, docHeight) ==
    LET progress == IF docHeight > 0 THEN [num |-> scrollY, den |-> docHeight] ELSE [num |-> 0, den |-> 1]
        classes == updateFootprints(progress)
    IN  [scrollY |-> scrollY, docHeight |-> docHeight, currentScrollProgress |-> progress,
         active |-> classes.active, recent |-> classes.recent, ticking |-> FALSE]

\* The page's components as the sequence player's specifications hold them.
PageInit ==
    /\ app = AppConstructed
    /\ typewriter = TypewriterConstructed(<<>>)
    /\ footprints = FootprintsAt(0, 0)

\* ------------------------------------------------------------ construction
\* A SequencePlayer once its constructor has returned: init() awaits frame 0.
PlayerInit ==
    /\ \E d \in Descriptors :
        /\ Constructor(DatasetOf(d))
        /\ framesPerYear = d.framesPerYear
        /\ startYear = d.startYear
    /\ images = [i \in Slots |-> NULL]
    /\ loadingFrames = {0}
    /\ loads = [i \in Slots |-> IF i = 0 THEN <<"init">> ELSE <<>>]
    /\ currentFrame = 0
    /\ currentYear = startYear
    /\ initialized = FALSE
    /\ bound = FALSE
    /\ ticking = FALSE
    /\ scrollStart = NaN
    /\ scrollRange = NaN
    /\ canvas = [req |-> NULL, img |-> NULL]
    /\ painted = <<>>
    /\ viewport \in Viewports
    /\ geometry = [width |-> NULL, height |-> NULL, drawWidth |-> 0, drawHeight |-> 0, drawX |-> 0, drawY |-> 0]
    /\ resized = FALSE
    /\ yearShown = NULL
    /\ overlayVisible = FALSE
    /\ failed = {}

Init == PlayerInit /\ PageInit

\* --------------------------------------------------------------- actions
\* The scroll listener registered by the constructor, before init() has run.
ScrollEvent_Unguarded ==
    /\ ticking' = TRUE
    /\ resized' = (ticking /\ resized)
    /\ UNCHANGED <<descVars, pageVars, frameSrc, images, loadingFrames, loads, currentFrame, currentYear, initialized, bound, scrollStart, scrollRange, canvas, painted, viewport, geometry, yearShown, overlayVisible, failed>>

\* A scroll event reaches the scroll listener, which requests one animation
\* frame unless one is already requested.
ScrollEvent ==
    /\ bound
    /\ ticking' = TRUE
    /\ resized' = (ticking /\ resized)
    /\ UNCHANGED <<descVars, pageVars, frameSrc, images, loadingFrames, loads, currentFrame, currentYear, initialized, bound, scrollStart, scrollRange, canvas, painted, viewport, geometry, yearShown, overlayVisible, failed>>

\* The animation-frame callback: onScroll(), then ticking = false.  s and r are
\* the scrollStart and scrollRange it computes from the layout of the page.
OnScroll(s, r) ==
    /\ ticking
    /\ ticking' = FALSE
    /\ scrollStart' = s
    /\ scrollRange' = r
    /\ resized' = FALSE
    /\ UNCHANGED <<descVars, pageVars, frameSrc, initialized, bound, viewport, failed>>
    /\ IF ~initialized THEN
           UNCHANGED <<images, loadingFrames, loads, canvas, painted, geometry, currentFrame, currentYear, yearShown, overlayVisible>>
       ELSE IF NotReached(s) THEN
           /\ overlayVisible' = FALSE
           /\ UNCHANGED <<images, loadingFrames, loads, canvas, painted, geometry, currentFrame, currentYear, yearShown>>
       ELSE IF ScrolledPast(s, r) THEN
           /\ SetCache(drawFrame(Cache, totalFrames - 1))
           /\ overlayVisible' = FALSE
           /\ yearShown' = IF hasYearIndicator THEN MaxYear ELSE yearShown
           /\ UNCHANGED <<currentFrame, currentYear>>
       ELSE
           LET progress == Progress(s, r)
               frameIndex == FrameIndexOf(progress, totalFrames)
               changed == frameIndex = NaN \/ frameIndex # currentFrame
               clampedYear == ClampYear(YearOf(frameIndex))
               yearChanged == changed /\ hasYearIndicator /\ (clampedYear = NaN \/ clampedYear # currentYear)
           IN  /\ overlayVisible' = OverlayShown(progress)
               /\ IF changed THEN
                      /\ currentFrame' = frameIndex
                      /\ SetCache(preloadBuffer(drawFrame(Cache, frameIndex), frameIndex))
                  ELSE UNCHANGED <<currentFrame, images, loadingFrames, loads, canvas, painted, geometry>>
               /\ currentYear' = IF yearChanged THEN clampedYear ELSE currentYear
               /\ yearShown' = IF yearChanged THEN clampedYear ELSE yearShown

\* The window takes the size vp and the resize event reaches the resize
\* listener, which computes the geometry again and redraws the current frame.
Resize(vp) ==
    /\ bound
    /\ vp # viewport
    /\ viewport' = vp
    /\ resized' = ticking
    /\ SetCache(drawFrame(setupCanvas(Cache, vp), currentFrame))
    /\ UNCHANGED <<descVars, pageVars, frameSrc, currentFrame, currentYear, initialized, bound, ticking, scrollStart, scrollRange, yearShown, overlayVisible, failed>>

\* A failed load that throws away the frames cached after frame 0.
Continue_EvictsOnFailure(c, w, i, result) ==
    LET kept == IF result = NULL THEN [c EXCEPT !.images = [j \in DOMAIN @ |-> IF j = 0 THEN @[j] ELSE NULL]] ELSE c
    IN  IF w = "draw" THEN ResumeDraw(kept, i, result)
        ELSE IF w = "init" THEN preloadBuffer(drawFrame(setupCanvas(kept, viewport), 0), 0)
        ELSE kept

\* What runs after the promise of a load of slot i resolves with `result`.
Continue(c, w, i, result) ==
    IF w = "draw" THEN ResumeDraw(c, i, result)
    ELSE IF w = "init" THEN preloadBuffer(drawFrame(setupCanvas(c, viewport), 0), 0)
    ELSE c

\* The rest of init() after its await, apart from the cache.
InitRest(w) ==
    IF w = "init" THEN
        /\ bound' = TRUE
        /\ initialized' = TRUE
        /\ yearShown' = IF hasYearIndicator THEN startYear ELSE yearShown
    ELSE UNCHANGED <<bound, initialized, yearShown>>

\* img.onload of the k-th Image loading slot i.
OnLoad(i, k) ==
    /\ k \in 1 .. Len(loads[i])
    /\ LET w == loads[i][k]
           c == [Cache EXCEPT !.images[i] = i, !.loadingFrames = @ \ {i}, !.loads[i] = RemoveAt(@, k)]
       IN  /\ SetCache(Continue(c, w, i, i))
           /\ InitRest(w)
    /\ failed' = failed \ {i}
    /\ UNCHANGED <<descVars, pageVars, frameSrc, currentFrame, currentYear, ticking, scrollStart, scrollRange, viewport, resized, overlayVisible>>

\* img.onerror that leaves the in-flight marker in place.
OnError_KeepsMarker(i, k) ==
    /\ k \in 1 .. Len(loads[i])
    /\ LET w == loads[i][k]
           c == [Cache EXCEPT !.loads[i] = RemoveAt(@, k)]
       IN  /\ SetCache(Continue(c, w, i, NULL))
           /\ InitRest(w)
    /\ failed' = failed \cup {i}
    /\ UNCHANGED <<descVars, pageVars, frameSrc, currentFrame, currentYear, ticking, scrollStart, scrollRange, viewport, resized, overlayVisible>>

\* img.onerror of the k-th Image loading slot i.
OnError(i, k) ==
    /\ k \in 1 .. Len(loads[i])
    /\ LET w == loads[i][k]
           c == [Cache EXCEPT !.loadingFrames = @ \ {i}, !.loads[i] = RemoveAt(@, k)]
       IN  /\ SetCache(Continue(c, w, i, NULL))
           /\ InitRest(w)
    /\ failed' = failed \cup {i}
    /\ UNCHANGED <<descVars, pageVars, frameSrc, currentFrame, currentYear, ticking, scrollStart, scrollRange, viewport, resized, overlayVisible>>

Next ==
    \/ ScrollEvent
    \/ \E l \in Layouts : OnScroll(l[1], l[2])
    \/ \E vp \in Viewports : Resize(vp)
    \/ \E i \in Slots : \E k \in 1 .. Len(loads[i]) : OnLoad(i, k)
    \/ \E i \in Slots : \E k \in 1 .. Len(loads[i]) : OnError(i, k)

Spec == Init /\ [][Next]_vars

\* The player of a section without year indicator (no data-frames-per-year).
InitPlain == Init /\ ~hasYearIndicator

SpecPlain == InitPlain /\ [][Next]_vars

\* ------------------------------------------- the prefetch window at scale
\* A player of WindowFrames frames in the middle of a session, scrolled from
\* one pixel before its section to one pixel past it while no load completes.  cached, loading and idle partition its slots.
MidSession(cached, loading, idle) ==
    /\ Constructor(DatasetOf([totalFrames |-> WindowFrames]))
    /\ framesPerYear = 0
    /\ startYear = DefaultStartYear
    /\ images = [i \in Slots |-> IF i \in cached THEN i ELSE NULL]
    /\ loadingFrames = loading
    /\ loads = [i \in Slots |-> IF i \in loading THEN <<"none">> ELSE <<>>]
    /\ currentFrame = 0
    /\ currentYear = startYear
    /\ initialized = TRUE
    /\ bound = TRUE
    /\ ticking = FALSE
    /\ scrollStart = NaN
    /\ scrollRange = NaN
    /\ canvas = [req |-> 0, img |-> 0]
    /\ viewport = <<4, 4>>
    /\ geometry = Letterbox(viewport)
    /\ painted = DrawRect(geometry)
    /\ resized = FALSE
    /\ yearShown = NULL
    /\ overlayVisible = FALSE
    /\ failed = idle
    /\ PageInit

\* Right after init() (frame 0 cached, its window loading, the rest untouched),
\* or later, with every m-th frame cached, the next one loading and, between
\* them, frames whose load has failed.
InitPreload ==
    \/ MidSession({0}, 1 .. Min(WindowFrames - 1, bufferSize), {})
    \/ \E m \in 2 .. 4 :
          LET all == 0 .. (WindowFrames - 1)
              cached == {i \in all : i % m = 0}
              loading == {i \in all : i % m = 1}
          IN  MidSession(cached, loading, all \ (cached \cup loading))

NextPreload ==
    \/ ScrollEvent
    \/ \E s \in -1 .. WindowFrames : OnScroll(s, WindowFrames - 1)

SpecPreload == InitPreload /\ [][NextPreload]_vars

\* ------------------------------------------------ frame sources, alone
\* getFrameSrc applied to every frame of a freshly constructed player, for
\* every section in Datasets.
InitFrameSrc ==
    /\ \E ds \in Datasets : Constructor(ds)
    /\ framesPerYear = 0
    /\ startYear = DefaultStartYear
    /\ images = [i \in Slots |-> NULL]
    /\ loadingFrames = {0}
    /\ loads = [i \in Slots |-> IF i = 0 THEN <<"init">> ELSE <<>>]
    /\ currentFrame = 0
    /\ currentYear = startYear
    /\ initialized = FALSE
    /\ bound = FALSE
    /\ ticking = FALSE
    /\ scrollStart = NaN
    /\ scrollRange = NaN
    /\ canvas = [req |-> NULL, img |-> NULL]
    /\ painted = <<>>
    /\ viewport \in Viewports
    /\ geometry = [width |-> NULL, height |-> NULL, drawWidth |-> 0, drawHeight |-> 0, drawX |-> 0, drawY |-> 0]
    /\ resized = FALSE
    /\ yearShown = NULL
    /\ overlayVisible = FALSE
    /\ failed = {}
    /\ PageInit

GetFrameSrc(frameIndex) ==
    /\ frameSrc' = [frameIndex |-> frameIndex, src |-> getFrameSrc(frameIndex)]
    /\ UNCHANGED <<descVars, pageVars, images, loadingFrames, loads, currentFrame, currentYear, initialized, bound, ticking, scrollStart, scrollRange, canvas, painted, viewport, geometry, resized, yearShown, overlayVisible, failed>>

NextFrameSrc == \E frameIndex \in 0 .. (totalFrames - 1) : GetFrameSrc(frameIndex)

SpecFrameSrc == InitFrameSrc /\ [][NextFrameSrc]_vars

\* ---------------------------------------------------------------- the App
\* The sequence player held still while another component of the page runs.
PlayerOne == PlayerInit /\ totalFrames = 1 /\ ~hasYearIndicator /\ viewport = <<4, 4>>

\* hideLoading: the overlay, if in the document, gets class 'hidden' and a
\* timeout to remove it.
hideLoading(a) ==
    IF a.overlay.present THEN [a EXCEPT !.overlay.hidden = TRUE, !.overlay.removals = @ + 1] ELSE a

\* showError: the overlay, if in the document, gets the message as content.
showError(a) ==
    IF a.overlay.present THEN [a EXCEPT !.overlay.content = "error"] ELSE a

\* ChordVisualization.setYearRange on the visualization of a.
setYearRange(a, start, end) == [a EXCEPT !.chord.yearStart = start, !.chord.yearEnd = end]

\* initVisualization('chord-viz').
initVisualization(a) ==
    IF ~a.data \/ a.initialized.chord THEN a
    ELSE [a EXCEPT !.initialized.chord = TRUE,
                   !.chord = [exists |-> TRUE, yearStart |-> ChordYearStart, yearEnd |-> ChordYearEnd]]

\* loadData() resolves: the rest of init()'s try block runs.
LoadDataResolves ==
    /\ app.phase = "loading"
    /\ app' = hideLoading([app EXCEPT !.data = TRUE, !.phase = "ready"])
    /\ UNCHANGED <<playerVars, typewriter, footprints>>

\* loadData() rejects: init()'s catch block runs.
LoadDataRejects ==
    /\ app.phase = "loading"
    /\ app' = showError(hideLoading([app EXCEPT !.phase = "failed"]))
    /\ UNCHANGED <<playerVars, typewriter, footprints>>

\* A timeout set by hideLoading fires: overlay.remove().
OverlayRemoved ==
    /\ app.overlay.removals > 0
    /\ app' = [app EXCEPT !.overlay.present = FALSE, !.overlay.removals = @ - 1]
    /\ UNCHANGED <<playerVars, typewriter, footprints>>

\* The start slider is moved to value; its input listener exists once
\* setupControls() has run.
ChordYearStartInput(value) ==
    /\ value # app.chordYearStart
    /\ LET moved == [app EXCEPT !.chordYearStart = value]
           endValue == app.chordYearEnd
           pushed == IF value > endValue THEN [moved EXCEPT !.chordYearEnd = value] ELSE moved
       IN  app' = IF app.phase # "ready" THEN moved
                  ELSE IF app.chord.exists THEN setYearRange(pushed, value, Max(value, endValue))
                  ELSE pushed
    /\ UNCHANGED <<playerVars, typewriter, footprints>>

\* The end slider is moved to value.
ChordYearEndInput(value) ==
    /\ value # app.chordYearEnd
    /\ LET moved == [app EXCEPT !.chordYearEnd = value]
           startValue == app.chordYearStart
           pushed == IF value < startValue THEN [moved EXCEPT !.chordYearStart = value] ELSE moved
       IN  app' = IF app.phase # "ready" THEN moved
                  ELSE IF app.chord.exists THEN setYearRange(pushed, Min(startValue, value), value)
                  ELSE pushed
    /\ UNCHANGED <<playerVars, typewriter, footprints>>

\* The intersection observer created by setupScrollAnimations() reports the
\* chord container as intersecting.
ChordVizIntersects ==
    /\ app.phase = "ready"
    /\ ~app.initialized.chord
    /\ app' = initVisualization(app)
    /\ UNCHANGED <<playerVars, typewriter, footprints>>

InitApp == PlayerOne /\ PageInit

NextApp ==
    \/ LoadDataResolves
    \/ LoadDataRejects
    \/ OverlayRemoved
    \/ \E value \in SliderYears : ChordYearStartInput(value)
    \/ \E value \in SliderYears : ChordYearEndInput(value)
    \/ ChordVizIntersects

SpecApp == InitApp /\ [][NextApp]_vars

\* ------------------------------------------------------- the TypewriterEffect
\* start(): nothing once completed or without text, else a timeout for type().
Start ==
    /\ typewriter.starts < MaxStarts
    /\ typewriter' =
          IF typewriter.completed \/ typewriter.text = <<>>
          THEN [typewriter EXCEPT !.starts = @ + 1]
          ELSE [typewriter EXCEPT !.starts = @ + 1, !.timeouts = @ + 1]
    /\ UNCHANGED <<playerVars, app, footprints>>

\* A timeout fires and calls type(): the next character and a new timeout, or
\* the completion branch.
Type ==
    /\ typewriter.timeouts > 0
    /\ typewriter' =
          IF typewriter.index < Len(typewriter.text)
          THEN [typewriter EXCEPT !.typed = Append(@, typewriter.text[typewriter.index + 1]),
                                  !.index = @ + 1]
          ELSE [typewriter EXCEPT !.completed = TRUE,
                                  !.completions = @ + 1,
                                  !.timeouts = @ - 1]
    /\ UNCHANGED <<playerVars, app, footprints>>

InitTypewriter ==
    /\ PlayerOne
    /\ app = AppConstructed
    /\ \E text \in TypewriterTexts : typewriter = TypewriterConstructed(text)
    /\ footprints = FootprintsAt(0, 0)

NextTypewriter == Start \/ Type

SpecTypewriter == InitTypewriter /\ [][NextTypewriter]_vars

\* ------------------------------------------------------- the FootprintsTrail
\* The scroll positions of a page with docHeight left to scroll in all.
PageLayouts == {l \in (0 .. MaxDoc) \X (0 .. MaxDoc) : l[1] <= l[2]}

\* The scroll listener of bindScroll: requests an animation frame unless one
\* is pending.
FootprintsScrollEvent ==
    /\ ~footprints.ticking
    /\ footprints' = [footprints EXCEPT !.ticking = TRUE]
    /\ UNCHANGED <<playerVars, app, typewriter>>

\* The requested animation frame: onScroll() with the page as it is then.
FootprintsOnScroll(scrollY, docHeight) ==
    /\ footprints.ticking
    /\ footprints' = FootprintsAt(scrollY, docHeight)
    /\ UNCHANGED <<playerVars, app, typewriter>>

\* init() ends with a call of onScroll(), on a page that has just loaded and
\* is at its top.
InitFootprints ==
    /\ PlayerOne
    /\ app = AppConstructed
    /\ typewriter = TypewriterConstructed(<<>>)
    /\ \E docHeight \in 0 .. MaxDoc : footprints = FootprintsAt(0, docHeight)

NextFootprints ==
    \/ FootprintsScrollEvent
    \/ \E l \in PageLayouts : FootprintsOnScroll(l[1], l[2])

SpecFootprints == InitFootprints /\ [][NextFootprints]_vars

\* ================================================================ claims
\* A step that is one run of the animation-frame callback, that is of onScroll.
OnScrollStep == ticking /\ ~ticking'

\* The frames of the sequence other than frame 0.
LaterFrames == 1 .. (totalFrames - 1)

\* In this step the drawFrame(i) that was awaiting a load of slot i resumes.
DrawResumes(i) == loads[i] = <<"draw">> /\ loads'[i] = <<>>

\* C1: under any interleaving of init, scroll, resize and load-completion
\* callbacks, no frame index ever has more than one image load outstanding.
C1_OneLoadPerIndex == \A i \in Slots : Len(loads[i]) <= 1

\* C1 witness: frame i is being prefetched, and a drawFrame(i) issued by a
\* scroll to frame i has run while that load was still outstanding.
C1_Witness == \E i \in LaterFrames : loads[i] = <<"none">> /\ currentFrame = i /\ canvas.req = i

\* f is the integer part of (s / r) * (total - 1), without using division.
IsFloorOfMapping(f, s, r, total) == f * r <= s * (total - 1) /\ s * (total - 1) < (f + 1) * r

\* C2: an onScroll run with scrollRange > 0 and 0 <= scrollStart <= scrollRange
\* leaves currentFrame = floor((scrollStart / scrollRange) * (totalFrames - 1));
\* 480 frames, range 4000, offset 2000 map to frame 239.
C2_ScrollMapsToFloor ==
    [][/\ FrameIndexOf(Progress(2000, 4000), 480) = 239
       /\ (OnScrollStep /\ scrollRange' > 0 /\ 0 <= scrollStart' /\ scrollStart' <= scrollRange')
            => IsFloorOfMapping(currentFrame', scrollStart', scrollRange', totalFrames)]_vars

\* C2 witness: onScroll has mapped an offset strictly inside the range whose
\* exact image is not a whole number of frames.
C2_Witness ==
    /\ ~ticking /\ scrollRange > 0 /\ 0 < scrollStart /\ scrollStart < scrollRange
    /\ (scrollStart * (totalFrames - 1)) % scrollRange # 0
    /\ IsFloorOfMapping(currentFrame, scrollStart, scrollRange, totalFrames)

\* C3 as stated: after an onScroll run with scrollStart <= 0, currentFrame is 0
\* whatever frame of the sequence was current before.  Read for a section
\* taller than the viewport (scrollRange > 0), where progress is defined;
\* scrollRange = 0 is C10's case.
C3_Original ==
    [][(OnScrollStep /\ scrollRange' > 0 /\ scrollStart' <= 0 /\ currentFrame \in 0 .. (totalFrames - 1)) =>
        currentFrame' = 0]_vars

\* C3 amended: an onScroll run with scrollStart < 0 leaves currentFrame as it
\* was (it only hides the overlay); one with scrollStart = 0 and scrollRange > 0
\* leaves currentFrame = 0.
C3_BeforeSectionKeepsFrame ==
    [][OnScrollStep =>
        /\ scrollStart' < 0 => (currentFrame' = currentFrame /\ canvas' = canvas /\ ~overlayVisible')
        /\ (scrollStart' = 0 /\ scrollRange' > 0) => currentFrame' = 0]_vars

\* C3 witness: onScroll has run with scrollStart < 0 while a later frame was
\* current, and that frame is still current.
C3_Witness == ~ticking /\ scrollStart # NaN /\ scrollStart < 0 /\ currentFrame \in LaterFrames

\* In this step drawFrame(i) was called: it painted for i or awaits a load of i.
DrawRequested(i) == canvas'.req = i \/ (loads'[i] # <<>> /\ loads'[i][Len(loads'[i])] = "draw")

\* C4: with the year indicator enabled, an onScroll run with scrollStart >=
\* scrollRange maps to frame totalFrames - 1 and shows the year startYear + 16,
\* for every descriptor.  Stated here for scrollStart beyond scrollRange, where
\* the handler draws the last frame whatever the descriptor is (frame 0 being
\* cached, so that the draw can be seen).
C4_EndShowsFinalYear ==
    [][(OnScrollStep /\ hasYearIndicator /\ scrollRange' > 0 /\ scrollStart' > scrollRange') =>
        /\ images[0] # NULL => DrawRequested(totalFrames - 1)
        /\ yearShown' = startYear + 16]_vars

\* C5 as stated: when the load of a frame i > 0 has failed and frame 0 is
\* cached, a later drawFrame(i) paints frame 0's image.
C5_Original ==
    [][\A i \in LaterFrames : (i \in failed /\ images[0] # NULL /\ DrawResumes(i)) => canvas'.img = 0]_vars

\* C5 amended: when the load of a frame i > 0 has failed and frame 0 is cached,
\* a later drawFrame(i) starts a new load of i unless one is in flight; it
\* paints frame 0's image if i is in flight or the new load fails, and frame
\* i's image if the new load succeeds.
C5_DrawAfterFailureRetries ==
    [][\A i \in LaterFrames : (i \in failed /\ images[i] = NULL /\ images[0] # NULL) =>
        /\ (OnScrollStep /\ currentFrame' = i /\ currentFrame # i) =>
              IF i \in loadingFrames THEN canvas' = [req |-> i, img |-> 0]
              ELSE loads'[i] = <<"draw">> /\ canvas' = canvas
        /\ DrawResumes(i) => canvas' = [req |-> i, img |-> IF images'[i] = NULL THEN 0 ELSE i]]_vars

\* C5 witness: the load of frame i has failed, frame 0 is cached, and a
\* drawFrame(i) issued since then awaits the new load it started.
C5_Witness == \E i \in LaterFrames : i \in failed /\ images[0] # NULL /\ loads[i] = <<"draw">>

\* C6: drawFrame(i) of an uncached frame i waits for the load of i, so frame
\* 0's image is painted for a request of i only in a step in which a load of
\* i fails.
C6_DrawWaitsForLoad ==
    [][\A i \in LaterFrames : (canvas' # canvas /\ canvas' = [req |-> i, img |-> 0]) =>
        (Len(loads'[i]) < Len(loads[i]) /\ images'[i] = NULL)]_vars

\* C7: with the year indicator enabled, after a scroll-driven change to frame f
\* the tracked year is startYear + floor(f / framesPerYear) clamped to
\* startYear .. startYear + 16.
C7_TrackedYear ==
    [][(OnScrollStep /\ hasYearIndicator /\ currentFrame' # currentFrame /\ {currentFrame, currentFrame'} \subseteq 0 .. (totalFrames - 1)) =>
        currentYear' = Min(startYear + 16, Max(startYear, startYear + (currentFrame' \div framesPerYear)))]_vars

\* In this step preloadBuffer started a load of slot i (nothing awaits it).
PreloadStarted(i) == Len(loads'[i]) = Len(loads[i]) + 1 /\ loads'[i][Len(loads'[i])] = "none"

\* C8: preloadBuffer(center) starts a load for exactly the indices of
\* max(0, center - 15) .. min(totalFrames - 1, center + 15) that are neither
\* cached nor in flight when it is called.  onScroll calls it right after
\* drawFrame(center), which has put center in flight if it was neither.
C8_PreloadExactWindow ==
    [][(OnScrollStep /\ currentFrame' # currentFrame /\ currentFrame' # NaN) =>
        LET center == currentFrame'
        IN  {i \in Slots : PreloadStarted(i)} =
            {i \in Max(0, center - 15) .. Min(totalFrames - 1, center + 15) :
                 images[i] = NULL /\ i \notin loadingFrames /\ i # center}]_vars

\* C8 witness: preloadBuffer has run for a center whose window is cut by
\* neither end of the sequence; it started loads inside the window and left
\* an empty, idle slot outside it alone.
C8_Witness ==
    /\ ~ticking /\ currentFrame - 15 > 0 /\ currentFrame + 15 < totalFrames - 1
    /\ \E i \in (currentFrame - 15) .. (currentFrame + 15) : loads[i] = <<"none">> /\ i \notin failed
    /\ \E i \in 0 .. (totalFrames - 1) : i > currentFrame + 15 /\ images[i] = NULL /\ loads[i] = <<>>

\* C9: for one scrollRange > 0, consecutive onScroll runs whose offsets a < b
\* both lie in 0 .. scrollRange map a to a frame index <= that of b, in
\* whichever order the two runs happen.
C9_MappingMonotone ==
    [][(OnScrollStep /\ scrollRange' = scrollRange /\ scrollRange > 0
          /\ 0 <= scrollStart /\ scrollStart <= scrollRange
          /\ 0 <= scrollStart' /\ scrollStart' <= scrollRange) =>
        /\ scrollStart < scrollStart' => currentFrame <= currentFrame'
        /\ scrollStart' < scrollStart => currentFrame' <= currentFrame]_vars

\* C9 witness: two onScroll runs in range have mapped a larger offset to a
\* later frame than frame 0.
C9_Witness == ~ticking /\ scrollRange > 0 /\ 0 < scrollStart /\ scrollStart <= scrollRange /\ currentFrame \in LaterFrames

\* C10: in every reachable state currentFrame is an integer with
\* 0 <= currentFrame < totalFrames.
C10_FrameInRange == currentFrame \in 0 .. (totalFrames - 1)

\* ---- C11
\* Where the placeholder stands in the name pattern, and the characters that
\* stand there in the source returned by the latest getFrameSrc call.
PlaceholderAt == CHOOSE k \in 1 .. Len(pattern) : pattern[k] = Placeholder
SrcDigits == SubSeq(frameSrc.src, 2 + PlaceholderAt, Len(frameSrc.src) - (Len(pattern) - PlaceholderAt))
IsDigit(ch) == \E d \in 1 .. 10 : DigitChars[d] = ch
RECURSIVE DecimalValue(_)
DecimalValue(s) ==
    IF s = <<>> THEN 0
    ELSE 10 * DecimalValue(SubSeq(s, 1, Len(s) - 1)) + ((CHOOSE d \in 1 .. 10 : DigitChars[d] = s[Len(s)]) - 1)
\* The number of digits of n >= 0 written without leading zeros.
DigitsOf(n) == CHOOSE k \in 1 .. 10 : n < 10 ^ k /\ (k = 1 \/ n >= 10 ^ (k - 1))
\* The source is sequenceName, '/', and the pattern with, in place of its
\* placeholder, startFrame + frameIndex written in `width` decimal digits.
NumberWritten(width) ==
    /\ frameSrc.src = <<sequenceName, "/">> \o SubSeq(pattern, 1, PlaceholderAt - 1) \o SrcDigits \o SubSeq(pattern, PlaceholderAt + 1, Len(pattern))
    /\ \A k \in 1 .. Len(SrcDigits) : IsDigit(SrcDigits[k])
    /\ Len(SrcDigits) = width
    /\ DecimalValue(SrcDigits) = startFrame + frameSrc.frameIndex

\* C11 as stated: for every frame index i in [0, totalFrames), getFrameSrc(i)
\* is sequenceName + '/' + the pattern with its placeholder replaced by
\* startFrame + i written with exactly `padding` digits.
C11_Original == frameSrc.frameIndex # NULL => NumberWritten(padding)

\* C11, amended: the number is written with at least `padding` digits: padded
\* with zeros on the left up to `padding` digits when it has fewer, and written
\* in full, with all its digits, when it has more.
C11_PaddedToAtLeast == frameSrc.frameIndex # NULL => NumberWritten(Max(padding, DigitsOf(startFrame + frameSrc.frameIndex)))

\* getFrameSrc has named a frame whose number has more digits than `padding`.
C11_Witness == frameSrc.frameIndex # NULL /\ DigitsOf(startFrame + frameSrc.frameIndex) > padding /\ frameSrc.frameIndex > 0

\* ---- C12
\* C12: for every section that supplies integers 0 <= start <= end, the player
\* uses them as its inclusive bounds: totalFrames = end - start + 1, the cache
\* has that many slots, and frame index 0 is named by the supplied start.
C12_SuppliedBoundsUsed ==
    (dataset.start # NaN /\ dataset.end # NaN /\ 0 <= dataset.start /\ dataset.start <= dataset.end) =>
        /\ startFrame = dataset.start
        /\ endFrame = dataset.end
        /\ totalFrames = dataset.end - dataset.start + 1
        /\ Cardinality(DOMAIN images \ {NaN}) = dataset.end - dataset.start + 1
        /\ frameSrc.frameIndex = 0 => DecimalValue(SrcDigits) = dataset.start

\* ---- C13
\* C13: after every onScroll run the overlay is visible iff
\* 0 <= scrollStart <= scrollRange and 0.05 < scrollStart / scrollRange < 0.95;
\* it is hidden before the section (scrollStart < 0) and past it
\* (scrollStart > scrollRange).  The quotient is compared exactly, as
\* scrollRange / 20 < scrollStart < 19 * scrollRange / 20.
C13_OverlayVisibleInMiddle ==
    [][OnScrollStep =>
        LET s == scrollStart'
            r == scrollRange'
        IN  /\ overlayVisible' <=> (0 <= s /\ s <= r /\ 20 * s > r /\ 20 * s < 19 * r)
            /\ s < 0 => ~overlayVisible'
            /\ s > r => ~overlayVisible']_vars

\* C13 witness: the overlay is visible at the first offset past 5% of a long
\* range, after having been hidden at the offset just before.
C13_Witness ==
    /\ ~ticking /\ overlayVisible /\ scrollRange > 20
    /\ 20 * scrollStart > scrollRange /\ 20 * (scrollStart - 1) <= scrollRange

\* ---- C14
\* A step in which a scroll event requests an animation frame, and a step in
\* which the resize listener runs.
ScrollEventStep == ~ticking /\ ticking'
ResizeStep == viewport' # viewport

\* C14: the scroll handler and the resize handler are both rate-limited to
\* once per animation frame.  A scroll event only requests the frame in which
\* onScroll will run; and of the resize events that arrive while one and the
\* same animation frame is awaited, only the first recomputes the geometry
\* and redraws.
C14_HandlersRateLimited ==
    [][/\ ScrollEventStep => UNCHANGED <<scrollStart, scrollRange, currentFrame, currentYear, images, loadingFrames, loads, canvas, painted, geometry, yearShown, overlayVisible>>
       /\ (ResizeStep /\ resized) => UNCHANGED <<geometry, painted, canvas, loads>>]_vars

\* ---- C15
\* In this step a new load of slot i was started.
LoadStarted(i) == Len(loads'[i]) > Len(loads[i]) \/ (loads[i] = <<>> /\ i \in loadingFrames')

\* C15 as stated: after the load of frame i has failed, nothing starts another
\* load of i, and slot i stays empty.  Stated for the frames i > 0, which only
\* a scroll or a resize can request again (init's own draw requests frame 0).
C15_Original ==
    [][\A i \in LaterFrames : i \in failed => (~LoadStarted(i) /\ images'[i] = NULL)]_vars

\* C15 amended: loadFrame keeps no record of a failure.  While the failed
\* frame i is neither cached nor in flight, the prefetch window of the next
\* scroll-driven frame change that contains i, a scroll-driven draw of i and a
\* resize-driven draw of i each start a new load of i; no other step does, and
\* the slot is filled when such a load succeeds.
C15_FailedFrameRetriedOnRequest ==
    [][\A i \in 0 .. (totalFrames - 1) : (i \in failed /\ images[i] = NULL /\ i \notin loadingFrames) =>
        LET center == currentFrame'
            prefetched == OnScrollStep /\ center # currentFrame /\ center # NaN /\ center - 15 <= i /\ i <= center + 15
            drawnPast == OnScrollStep /\ initialized /\ scrollStart' >= 0 /\ scrollStart' > scrollRange' /\ i = totalFrames - 1
            redrawn == ResizeStep /\ currentFrame = i
        IN  /\ LoadStarted(i) <=> (prefetched \/ drawnPast \/ redrawn)
            /\ LoadStarted(i) => loads'[i] = <<IF drawnPast \/ redrawn \/ center = i THEN "draw" ELSE "none">>
            /\ images'[i] = NULL]_vars

\* C15 witness: the load of a frame has failed and a prefetch window has
\* started a new load of it since.
C15_Witness == \E i \in LaterFrames : i \in failed /\ images[i] = NULL /\ loads[i] = <<"none">>

\* ---- C16
\* C16: once slot i holds a decoded image it holds that image in every later
\* state: no step empties the slot, and no load of i that could overwrite it
\* is in flight or is started.
C16_CachedSlotKept ==
    [][\A i \in Slots : images[i] # NULL =>
        /\ images'[i] = images[i]
        /\ loads[i] = <<>> /\ loads'[i] = <<>>
        /\ i \notin loadingFrames /\ i \notin loadingFrames']_vars

\* C16 witness: frame 0 and a later frame are cached, and after that the load
\* of another frame has failed.
C16_Witness == images[0] # NULL /\ (\E i \in LaterFrames : images[i] # NULL) /\ failed # {}

\* ---- C17
\* init() is still awaiting the load of frame 0 that the constructor started.
InitAwaits == loads[0] # <<>> /\ loads[0][1] = "init"
\* The geometry as the constructor leaves it.
NoGeometry == geometry.width = NULL /\ geometry.height = NULL /\ geometry.drawWidth = 0 /\ geometry.drawHeight = 0
\* Nothing has been painted and no drawFrame call awaits a load.
NoDraw == canvas.req = NULL /\ painted = <<>> /\ \A i \in Slots : \A k \in 1 .. Len(loads[i]) : loads[i][k] # "draw"
\* No listener is bound and no handler has run.
NoHandling == ~bound /\ ~ticking /\ ~resized /\ scrollStart = NaN /\ scrollRange = NaN /\ ~overlayVisible /\ currentFrame = 0

\* C17: the geometry is computed, the listeners are bound and the first draw is
\* issued only after the load of frame 0 has completed, successfully or not,
\* and no scroll or resize handling runs before that.  While init() awaits the
\* load none of it has happened; all of it happens in the step in which the
\* load completes.
C17_InitAfterFirstLoad ==
    /\ [](InitAwaits => (NoGeometry /\ NoDraw /\ NoHandling /\ ~initialized))
    /\ [][(InitAwaits /\ ~InitAwaits') =>
            /\ bound' /\ initialized'
            /\ IF images'[0] # NULL
               THEN geometry' = Letterbox(viewport) /\ canvas' = [req |-> 0, img |-> 0] /\ painted' = DrawRect(geometry')
               ELSE NoGeometry' /\ loads'[0] = <<"draw">> /\ canvas'.req = NULL]_vars
    /\ [](~InitAwaits => (bound /\ initialized))

\* C17 witness: the load of frame 0 has failed; init() has bound the listeners
\* and issued its first draw, which awaits a new load of frame 0.
C17_Witness == bound /\ initialized /\ 0 \in failed /\ loads[0] = <<"draw">> /\ NoGeometry

\* ---- C18
\* Every geometry computation so far has found frame 0 missing.
GeometryUnavailable == initialized /\ geometry.drawWidth = 0 /\ geometry.drawHeight = 0
\* In this step an image was painted (and the canvas shows it).
PaintStep == canvas' # canvas \/ painted' # painted
FullSurface == <<0, 0, geometry.width, geometry.height>>

\* C18 as stated: if frame 0 has not loaded when the geometry is computed,
\* drawWidth and drawHeight stay 0, and every later draw of a resolved image
\* paints it over the full surface.
C18_Original ==
    [][GeometryUnavailable =>
        /\ geometry'.drawWidth = 0 /\ geometry'.drawHeight = 0
        /\ PaintStep => painted' = FullSurface]_vars

\* C18 amended: ... drawWidth and drawHeight stay 0 until a resize event finds
\* frame 0 cached and computes the geometry; until then every draw of a
\* resolved image paints it over the full surface, and from that resize on
\* draws use the computed rectangle.
C18_FullSurfaceUntilResize ==
    [][GeometryUnavailable =>
        IF ResizeStep /\ images[0] # NULL
        THEN /\ geometry' = Letterbox(viewport')
             /\ PaintStep => painted' = <<geometry'.drawX, geometry'.drawY, geometry'.drawWidth, geometry'.drawHeight>>
        ELSE /\ geometry' = geometry
             /\ PaintStep => painted' = FullSurface]_vars

\* C18 witness: init() computed the geometry without frame 0, frame 0 has been
\* loaded since by the retry of the first draw, and it is painted over the
\* full surface.
C18_Witness == GeometryUnavailable /\ images[0] # NULL /\ canvas.img = 0 /\ painted = FullSurface

\* ---- C19
\* What drawFrame(index) called in this step must have left behind.
Redrawn(index) ==
    IF images[index] # NULL THEN canvas' = [req |-> index, img |-> images[index]] /\ painted' = DrawRect(geometry')
    ELSE IF index \notin loadingFrames THEN loads'[index] = <<"draw">> /\ canvas' = canvas
    ELSE IF images[0] # NULL THEN canvas' = [req |-> index, img |-> 0] /\ painted' = DrawRect(geometry')
    ELSE canvas' = canvas /\ painted' = painted

\* C19: a resize event computes the geometry again (from the new window size;
\* as in C18 the computation changes nothing while frame 0 is missing) and
\* issues a redraw of currentFrame; it leaves currentFrame, currentYear and
\* every cached slot unchanged.
C19_ResizeRedrawsCurrentFrame ==
    [][ResizeStep =>
        /\ geometry' = IF images[0] # NULL THEN Letterbox(viewport') ELSE geometry
        /\ Redrawn(currentFrame)
        /\ currentFrame' = currentFrame /\ currentYear' = currentYear
        /\ \A i \in Slots : images[i] # NULL => images'[i] = images[i]]_vars

\* C19 witness: a resize event has come while a later frame was displayed: the
\* geometry is that of the new window size and the frame is painted in it.
C19_Witness ==
    /\ resized /\ currentFrame \in LaterFrames /\ geometry = Letterbox(viewport)
    /\ canvas = [req |-> currentFrame, img |-> currentFrame] /\ painted = DrawRect(geometry)

\* ---- C20
\* The frame index an onScroll run with offset s in a range r maps to; none
\* (NULL) before the section.
MappedFrame(s, r) ==
    IF s < 0 THEN NULL
    ELSE IF s > r THEN totalFrames - 1
    ELSE FrameIndexOf(Progress(s, r), totalFrames)
\* In this step a drawFrame call painted or started to await a load.
DrawObserved == PaintStep \/ \E i \in Slots : Len(loads'[i]) > Len(loads[i]) /\ loads'[i][Len(loads'[i])] = "draw"

\* C20: an onScroll run issues a draw only if the frame index it maps to
\* differs from currentFrame as it was before the run; runs that map to the
\* frame already current, in range, before the section or past it, issue none.
\* Stated for a section with a positive scroll range whose frame 0 is cached.
C20_DrawOnlyOnFrameChange ==
    [][(OnScrollStep /\ initialized /\ scrollRange' > 0 /\ images[0] # NULL /\ currentFrame # NaN /\ DrawObserved) =>
        (MappedFrame(scrollStart', scrollRange') # NULL /\ MappedFrame(scrollStart', scrollRange') # currentFrame)]_vars

\* ---- C21
\* This onScroll run switches the displayed frame to f: by a frame change in
\* range, or by drawing the last frame when the section is scrolled past while
\* the canvas shows another one.
SwitchesTo(f) ==
    \/ currentFrame' # currentFrame /\ currentFrame' = f
    \/ scrollStart' >= 0 /\ scrollStart' > scrollRange' /\ f = totalFrames - 1 /\ canvas.req # f

\* C21: every onScroll run that switches the displayed frame to f, the clamp to
\* the last frame of a section scrolled past included, calls preloadBuffer(f):
\* after it every frame of max(0, f - 15) .. min(totalFrames - 1, f + 15) is
\* cached or in flight.
C21_FrameSwitchPrefetches ==
    [][(OnScrollStep /\ initialized) =>
        \A f \in 0 .. (totalFrames - 1) : SwitchesTo(f) =>
            \A i \in Max(0, f - 15) .. Min(totalFrames - 1, f + 15) : images'[i] # NULL \/ i \in loadingFrames']_vars

\* ---- C22
\* A step in which the load of slot i completes: its waiter entry is consumed.
\* The waiter that was resumed is Head(loads[i]).
CompletionStep(i) ==
    loads[i] # <<>> /\ loads'[i] # loads[i] /\ Len(loads'[i]) <= Len(loads[i])

\* The continuation resumed by the completion is init's: the only one that goes
\* on to request loads (the retry of frame 0 by drawFrame(0), preloadBuffer(0)).
ResumesInit(i) == Head(loads[i]) = "init"

\* C22: when the load of i completes, the marker of i is removed in both
\* outcomes, slot i holds the image on success and stays empty on failure, no
\* other slot changes and no other marker is removed; markers are added in the
\* same step only by the resumed init, and i itself is in flight afterwards
\* only when init's drawFrame(0) asked for it again.
C22_CompletionTouchesOnlyItsSlot ==
    [][\A i \in Slots : CompletionStep(i) =>
        /\ (i \in failed' => images'[i] = NULL)
        /\ (i \notin failed' => images'[i] = i)
        /\ \A j \in Slots \ {i} : images'[j] = images[j]
        /\ (loadingFrames \ {i}) \subseteq loadingFrames'
        /\ (~ResumesInit(i) => loadingFrames' = loadingFrames \ {i})
        /\ (i \in loadingFrames' => (ResumesInit(i) /\ i \in failed' /\ loads'[i] = <<"draw">>))]_vars

\* A prefetch load has failed: its marker is gone, its slot is empty, and the
\* first frame, loaded before it, is still cached.
C22_Witness ==
    \E i \in LaterFrames : i \in failed /\ i \notin loadingFrames /\ images[i] = NULL /\ images[0] = 0

\* ---- C23
\* The browser fires onload or onerror for every Image whose src was set.
LoadCompletes(i) == i \in Slots /\ \E k \in 1 .. Len(loads[i]) : OnLoad(i, k) \/ OnError(i, k)

EveryLoadCompletes == \A i \in 0 .. (MaxFrames - 1) : WF_vars(LoadCompletes(i))

\* A session in a window that is not resized, over a section whose scrollable
\* height is MaxRange.
InitLoads == InitPlain /\ viewport = <<4, 4>>

LoadLayouts == (0 .. (MaxRange + 1)) \X {MaxRange}

NextLoads ==
    \/ ScrollEvent
    \/ \E l \in LoadLayouts : OnScroll(l[1], l[2])
    \/ \E i \in Slots : \E k \in 1 .. Len(loads[i]) : OnLoad(i, k)
    \/ \E i \in Slots : \E k \in 1 .. Len(loads[i]) : OnError(i, k)

SpecLoads == InitLoads /\ [][NextLoads]_vars /\ EveryLoadCompletes

\* C23: if every issued load fires onload or onerror, every index in flight
\* eventually leaves the in-flight set, and the promise of the loadFrame call
\* that started the load resolves: its waiter is resumed.
C23_LoadsTerminate ==
    \A i \in 0 .. (MaxFrames - 1) :
        (i \in Slots /\ i \in loadingFrames) ~> (i \in Slots /\ i \notin loadingFrames /\ loads[i] = <<>>)

\* A drawFrame call is suspended on the load it started for a later frame.
C23_Witness == \E i \in LaterFrames : i \in loadingFrames /\ loads[i] = <<"draw">>

\* ---- C24
\* C24: the image last painted belongs to the frame last requested, so a
\* drawFrame(i) suspended on a load never paints over a frame requested by a
\* later drawFrame call. Every drawFrame call asks for currentFrame or, when the
\* section is scrolled past, for the last frame; here the canvas shows
\* currentFrame with its own image, painted by a later call, when the suspended
\* one resumes.
C24_SuspendedDrawNeverPaintsStale ==
    [][\A i \in 0 .. (totalFrames - 1) :
        (/\ DrawResumes(i)
         /\ currentFrame # NaN
         /\ i \notin {currentFrame, totalFrames - 1}
         /\ canvas = [req |-> currentFrame, img |-> currentFrame])
        => canvas' = canvas]_vars

\* ---- C25
\* C25: with the year indicator enabled, in every state after initialization
\* the year written to the indicator is the tracked currentYear; stated for
\* sequences that start in the default year, in sections with room to scroll.
C25_IndicatorShowsCurrentYear ==
    (initialized /\ hasYearIndicator /\ startYear = DefaultStartYear /\ scrollRange > 0)
        => yearShown = currentYear

\* ---- C26
\* This onScroll run, in a section with room to scroll, issued drawFrame(f): it
\* painted for request f, or left a drawFrame(f) suspended on the load it
\* started.
ScrollDraws(f) ==
    /\ OnScrollStep
    /\ scrollRange' > 0
    /\ \/ canvas'.req = f /\ PaintStep
       \/ loads[f] = <<>> /\ loads'[f] = <<"draw">>

\* C26: after an onScroll run that issues a draw of frame f, currentFrame = f,
\* so the resize listener redraws the frame scrolling displayed last.
C26_CurrentFrameIsDrawnFrame ==
    [][\A f \in 0 .. (totalFrames - 1) : ScrollDraws(f) => currentFrame' = f]_vars

\* ---- C27
\* C27: whenever the chord visualization exists, its yearStart and yearEnd are
\* the values of the start and end sliders, and yearStart <= yearEnd, however
\* slider input and the creation of the visualization are ordered.
C27_ChordRangeFollowsSliders ==
    app.chord.exists =>
        /\ app.chord.yearStart = app.chordYearStart
        /\ app.chord.yearEnd = app.chordYearEnd
        /\ app.chord.yearStart <= app.chord.yearEnd

\* ---- C28
\* C28: once loadData() has failed during init(), the overlay carries the error
\* message, is not marked hidden and is still in the document.
C28_ErrorStaysDisplayed ==
    app.phase = "failed" =>
        /\ app.overlay.content = "error"
        /\ ~app.overlay.hidden
        /\ app.overlay.present

\* ---- C29
\* What has been typed is the beginning of the text, each character once.
TypedInOrder ==
    /\ Len(typewriter.typed) <= Len(typewriter.text)
    /\ \A n \in 1 .. Len(typewriter.typed) : typewriter.typed[n] = typewriter.text[n]

\* C29: for a non-empty text and any number of start() calls, each character is
\* appended once and in order, and the completion step runs exactly once: never
\* twice, and once when start() has been called and no timeout is pending.
C29_TypedOnceCompletedOnce ==
    typewriter.text # <<>> =>
        /\ TypedInOrder
        /\ typewriter.completions <= 1
        /\ (typewriter.starts > 0 /\ typewriter.timeouts = 0) =>
              (typewriter.typed = typewriter.text /\ typewriter.completions = 1)

\* ---- C30
\* C30: for every scroll progress in [0, 1], after updateFootprints the
\* footprints with class 'recent' are the two footprints of one pair, both
\* have class 'active', and no active footprint has a higher index.
C30_RecentIsLastActivePair ==
    /\ \E pair \in 0 .. ((totalFootprints \div 2) - 1) : footprints.recent = {2 * pair, 2 * pair + 1}
    /\ footprints.recent \subseteq footprints.active
    /\ \A index \in footprints.active : \E r \in footprints.recent : index <= r
====
